---- MODULE Spec2Model ----
(***************************************************************************)
(* Model of servidor_minecraft/scripts/monitor_simple.py: the snapshot     *)
(* run (main), the live view (watch_java) and the metric functions         *)
(* get_mem_percent / get_disk_percent.                                     *)
(*                                                                         *)
(* Python floats are IEEE-754 doubles.  A double is modelled bit for bit:  *)
(* a sign, the 53 significant bits (most significant first) and the        *)
(* exponent of the first bit.  Percentages and megabytes, which the code   *)
(* rounds to one decimal, are carried as an integer number of tenths.      *)
(***************************************************************************)
EXTENDS Integers, Sequences, FiniteSets, TLC

(***************************************************************************)
(* IEEE-754 double arithmetic, as used by "/", "*" and round(x, 1).        *)
(***************************************************************************)

\* number of significant bits of a Python float
Prec == 53

Abs(n) == IF n < 0 THEN -n ELSE n

Sign(n) == IF n < 0 THEN -1 ELSE 1

FZero == [s |-> 1, m |-> << >>, e |-> 0]

Min(a, b) == IF a < b THEN a ELSE b

RECURSIVE BitsToNat(_, _, _)
\* value of bits[lo..hi] read as a binary integer (at most 30 bits)
BitsToNat(bits, lo, hi) ==
  IF lo > hi THEN 0
  ELSE IF lo = hi THEN bits[lo]
  ELSE LET mid == (lo + hi) \div 2
       IN  BitsToNat(bits, lo, mid) * 2^(hi - mid) + BitsToNat(bits, mid + 1, hi)

\* the k low binary digits of n, most significant first
NatToBitsN(n, k) == [i \in 1..k |-> (n \div 2^(k - i)) % 2]

RECURSIVE BitLength(_)
\* number of binary digits of n (0 for 0)
BitLength(n) == IF n = 0 THEN 0 ELSE 1 + BitLength(n \div 2)

\* binary digits of n, most significant first (empty for 0)
NatToBits(n) == NatToBitsN(n, BitLength(n))

\* TRUE when some bit of bits[from..Len(bits)] is set
AnyBitFrom(bits, from) == \E i \in from..Len(bits) : bits[i] = 1

\* bits + 1; an all-ones input yields all zeros (the carry is dropped)
IncBits(bits) ==
  LET zeros == {i \in 1..Len(bits) : bits[i] = 0}
      j     == IF zeros = {} THEN 0
               ELSE CHOOSE i \in zeros : \A k \in zeros : k <= i
  IN  [i \in 1..Len(bits) |-> IF i < j THEN bits[i] ELSE IF i = j THEN 1 ELSE 0]

\* round-to-nearest-even of an exact bit string (first bit set, exponent e
\* of the first bit) to Prec bits: the rounding every float operation does
RoundToPrec(s, full, e, extraSticky) ==
  LET padded == IF Len(full) >= Prec THEN full
                ELSE full \o [i \in 1..(Prec - Len(full)) |-> 0]
      kept   == SubSeq(padded, 1, Prec)
      guard  == IF Len(padded) > Prec THEN padded[Prec + 1] ELSE 0
      sticky == extraSticky \/ AnyBitFrom(padded, Prec + 2)
      up     == guard = 1 /\ (sticky \/ kept[Prec] = 1)
      inc    == IncBits(kept)
  IN  IF ~up THEN [s |-> s, m |-> kept, e |-> e]
      ELSE IF inc[1] = 0 THEN [s |-> s, m |-> [inc EXCEPT ![1] = 1], e |-> e + 1]
      ELSE [s |-> s, m |-> inc, e |-> e]

RECURSIVE Normalise(_, _, _)
\* scale n/d by powers of two until d <= n < 2d; e counts the scaling
Normalise(n, d, e) ==
  IF n < d THEN Normalise(2 * n, d, e - 1)
  ELSE IF n >= 2 * d THEN Normalise(n, 2 * d, e + 1)
  ELSE <<n, d, e>>

RECURSIVE QuotientBits(_, _, _)
\* binary long division: the next k quotient bits of r/d (r < d), eight
\* bits per step
QuotientBits(r, d, k) ==
  IF k = 0 THEN << >>
  ELSE LET c == Min(k, 8)
           n == r * 2^c
       IN  NatToBitsN(n \div d, c) \o QuotientBits(n % d, d, k - c)

RECURSIVE Remainder(_, _, _)
\* the remainder left after k bits of the long division of r/d
Remainder(r, d, k) ==
  IF k = 0 THEN r
  ELSE LET c == Min(k, 8) IN Remainder((r * 2^c) % d, d, k - c)

\* Python's a / b on two ints (b # 0): the double nearest to the quotient
FloatDiv(a, b) ==
  IF a = 0 THEN FZero
  ELSE LET nde == Normalise(Abs(a), Abs(b), 0)
           r0  == nde[1] - nde[2]
           q   == <<1>> \o QuotientBits(r0, nde[2], Prec)
       IN  RoundToPrec(Sign(a) * Sign(b), q, nde[3],
                       Remainder(r0, nde[2], Prec) # 0)

RECURSIVE MulFrom(_, _, _, _)
\* bits[1..hi] times the small integer c, eight bits per step from the low
\* end, with the carry of the lower chunks added in
MulFrom(bits, c, hi, carry) ==
  IF hi = 0 THEN NatToBits(carry)
  ELSE LET lo == IF hi > 8 THEN hi - 8 + 1 ELSE 1
           v  == BitsToNat(bits, lo, hi) * c + carry
           w  == hi - lo + 1
       IN  MulFrom(bits, c, lo - 1, v \div 2^w) \o NatToBitsN(v % 2^w, w)

\* exact product of a bit string and a small positive integer c
MulBits(bits, c) ==
  MulFrom(bits, c, Len(bits), 0)

\* Python's x * c for a float x and a small positive int c
FloatMulInt(x, c) ==
  IF x.m = << >> THEN FZero
  ELSE LET full == MulBits(x.m, c)
       IN  RoundToPrec(x.s, full, x.e + (Len(full) - Len(x.m)), FALSE)

\* 10 * |x| split at the binary point: the whole tenths, the bit worth one
\* half, and whether anything lies below that bit
TenthsOf(x) ==
  LET full   == MulBits(x.m, 10)
      e      == x.e + (Len(full) - Len(x.m))
      nint   == IF e < 0 THEN 0 ELSE e + 1
      padded == IF Len(full) >= nint THEN full
                ELSE full \o [i \in 1..(nint - Len(full)) |-> 0]
  IN  [whole |-> BitsToNat(padded, 1, nint),
       half  |-> e >= -1 /\ nint + 1 <= Len(padded) /\ padded[nint + 1] = 1,
       rest  |-> IF e < -1 THEN TRUE ELSE AnyBitFrom(padded, nint + 2)]

\* variant: rounding to one decimal with exact ties away from zero
RoundHalfAway(x) ==
  IF x.m = << >> THEN 0
  ELSE LET t == TenthsOf(x)
       IN  x.s * (IF t.half THEN t.whole + 1 ELSE t.whole)

\* Python's round(x, 1), as a signed number of tenths: the exact binary
\* value of x is rounded to the nearest tenth, an exact tie to the even one
Round1(x) ==
  IF x.m = << >> THEN 0
  ELSE LET t == TenthsOf(x)
       IN  x.s * (IF t.half /\ (t.rest \/ t.whole % 2 = 1)
                  THEN t.whole + 1 ELSE t.whole)

(***************************************************************************)
(* State.                                                                  *)
(***************************************************************************)
VARIABLES
  pc,            \* position of the running function
  exc,           \* the exception that escaped, "none" while none has
  procMeminfo,   \* /proc/meminfo: readable or not, and its key -> kB fields
  diskUsage,     \* shutil.disk_usage('/'): ok or not, total and used
  mem,           \* main's mem: get_mem_percent(), in tenths of a percent
  disk,          \* main's disk: get_disk_percent('/'), in tenths
  procTable,     \* the OS process table: pid -> [rss, cmd] of a java process
  exited,        \* <<pid, when>>: processes that exited, and at which point
                 \* of their inspection (their /proc entry is gone)
  pids,          \* the list find_java_pids() returned
  rows,          \* watch_java's rows / main's details of the current cycle
  logged,        \* rows main's last loop has logged
  logfile,       \* lines appended to monitor.log
  stdout,        \* lines printed since the screen was last cleared
  interval,      \* watch_java's interval argument (seconds)
  argsFilter,    \* the --filter argument: absent, or its comma-separated parts
  filter_keywords, \* watch_java's active keyword list
  interrupted    \* a KeyboardInterrupt has been delivered

vars == <<pc, exc, procMeminfo, diskUsage, mem, disk, procTable, exited,
          pids, rows, logged, logfile, stdout, interval, argsFilter,
          filter_keywords, interrupted>>

(***************************************************************************)
(* Thresholds.                                                             *)
(***************************************************************************)
TH_RAM == 80

TH_DISK == 90

\* variant: a strict comparison
Exceeds(value, threshold) == value > threshold * 10

\* "mem >= TH_RAM", "disk >= TH_DISK" on a value kept in tenths
Reaches(value, threshold) == value >= threshold * 10

(***************************************************************************)
(* get_mem_percent and get_disk_percent.                                   *)
(***************************************************************************)

\* dict.get(key, default)
Get(d, key, default) == IF key \in DOMAIN d THEN d[key] ELSE default

\* (total - avail) / total * 100 and used / total * 100
PercentOf(part, total) == FloatMulInt(FloatDiv(part, total), 100)

\* round(used_pct, 1), in tenths
RoundPercent(x) == Round1(x)

\* variant: no fallback to MemFree + Buffers + Cached
AvailNoFallback(m) == Get(m, "MemAvailable", 0)

\* mem.get('MemAvailable', MemFree + Buffers + Cached)
Avail(m) ==
  Get(m, "MemAvailable",
      Get(m, "MemFree", 0) + Get(m, "Buffers", 0) + Get(m, "Cached", 0))

get_mem_percent(meminfo) ==
  IF ~meminfo.readable THEN 0
  ELSE LET total == Get(meminfo.fields, "MemTotal", 0)
           avail == Avail(meminfo.fields)
       IN  IF total = 0 THEN 0
           ELSE RoundPercent(PercentOf(total - avail, total))

get_disk_percent(usage) ==
  IF ~usage.ok \/ usage.total = 0 THEN 0
  ELSE RoundPercent(PercentOf(usage.used, usage.total))

(***************************************************************************)
(* Text.  A string is a sequence of one-character strings.                 *)
(***************************************************************************)
UpperCase == <<"A","B","C","D","E","F","G","H","I","J","K","L","M",
               "N","O","P","Q","R","S","T","U","V","W","X","Y","Z">>

LowerCase == <<"a","b","c","d","e","f","g","h","i","j","k","l","m",
               "n","o","p","q","r","s","t","u","v","w","x","y","z">>

\* str.lower(), one character
LowerChar(c) ==
  IF \E i \in 1..Len(UpperCase) : UpperCase[i] = c
  THEN LowerCase[CHOOSE i \in 1..Len(UpperCase) : UpperCase[i] = c]
  ELSE c

\* variant: no case folding
NoLower(str) == str

\* str.lower()
Lower(str) == [i \in 1..Len(str) |-> LowerChar(str[i])]

\* Python's "sub in str"
Contains(sub, str) ==
  \E k \in 0..(Len(str) - Len(sub)) : SubSeq(str, k + 1, k + Len(sub)) = sub

\* str.strip(): leading and trailing blanks removed
Strip(str) ==
  LET inked == {i \in 1..Len(str) : str[i] # " "}
  IN  IF inked = {} THEN << >>
      ELSE SubSeq(str, CHOOSE i \in inked : \A j \in inked : i <= j,
                       CHOOSE i \in inked : \A j \in inked : j <= i)

\* the default of filter_keywords
DefaultKeywords ==
  << <<"f","o","r","g","e">>,
     <<"m","i","n","e","c","r","a","f","t">>,
     <<"k","u","b","e","j","s">>,
     <<"s","e","r","v","e","r">>,
     <<"p","a","p","e","r">>,
     <<"s","p","i","g","o","t">> >>

(***************************************************************************)
(* Process scanning.                                                       *)
(***************************************************************************)

\* the pids of the live java processes, ascending, as pgrep prints them;
\* empty when pgrep cannot be run or exits non-zero
find_java_pids(table, gone, pgrepRuns) ==
  IF ~pgrepRuns THEN << >>
  ELSE SelectSeq([i \in 1..Cardinality(DOMAIN table) |-> i],
                 LAMBDA p : p \notin gone)

\* variant: the RSS of the table entry although the process is gone
get_rss_kb_stale(table, gone, pid) == table[pid].rss

\* VmRSS of /proc/<pid>/status, 0 when the file cannot be read
get_rss_kb(table, gone, pid) == IF pid \in gone THEN 0 ELSE table[pid].rss

\* /proc/<pid>/cmdline as text, empty when the file cannot be read
get_cmdline(table, gone, pid) == IF pid \in gone THEN << >> ELSE table[pid].cmd

\* round(rss_kb / 1024, 1), in tenths of a MB
RoundMB(rss_kb) == Round1(FloatDiv(rss_kb, 1024))

(***************************************************************************)
(* Scoring and ranking.                                                    *)
(***************************************************************************)
RECURSIVE ScoreFrom(_, _, _)
\* the loop "for kw in filter_keywords": keywords i.. that occur in cmd
ScoreFrom(cmd, kws, i) ==
  IF i > Len(kws) THEN 0
  ELSE (IF Contains(Lower(kws[i]), Lower(cmd)) THEN 1 ELSE 0)
       + ScoreFrom(cmd, kws, i + 1)

Score(cmd, kws) == ScoreFrom(cmd, kws, 1)

\* Python's tuple comparison a < b
LexLess(a, b) ==
  \E i \in 1..Min(Len(a), Len(b)) :
     a[i] < b[i] /\ \A j \in 1..(i - 1) : a[j] = b[j]

\* variant: an insertion that goes in front of the items with an equal key
InsertBeforeTies(order, i, keys) ==
  LET ahead == {k \in 1..Len(order) : LexLess(keys[i], keys[order[k]])}
      p     == Cardinality(ahead)
  IN  SubSeq(order, 1, p) \o <<i>> \o SubSeq(order, p + 1, Len(order))

\* one insertion of the stable descending sort: item i goes behind every
\* item already placed whose key is not smaller
InsertDesc(order, i, keys) ==
  LET ahead == {k \in 1..Len(order) : ~LexLess(keys[order[k]], keys[i])}
      p     == Cardinality(ahead)
  IN  SubSeq(order, 1, p) \o <<i>> \o SubSeq(order, p + 1, Len(order))

RECURSIVE SortedOrder(_, _)
\* list.sort(key=..., reverse=True) on items 1..n: their indices in output
\* order (the sort is stable, also with reverse=True)
SortedOrder(keys, n) ==
  IF n = 0 THEN << >> ELSE InsertDesc(SortedOrder(keys, n - 1), n, keys)

SortDesc(items, keys) ==
  LET order == SortedOrder(keys, Len(items))
  IN  [k \in 1..Len(items) |-> items[order[k]]]

\* key=lambda x: (x[0], x[2]) of watch_java
WatchKey(row) == <<row.score, row.mb>>

\* variant: the unrounded RSS as key
MainKeyRaw(row) == <<row.rss_kb>>

\* key=lambda x: x[1] of main
MainKey(row) == <<row.mb>>

(***************************************************************************)
(* Rendering.                                                              *)
(***************************************************************************)
\* the width at which watch_java shortens a command line
CmdWidth == 120

\* the characters kept in front of the "..."
CmdKeep == 117

Ellipsis == <<".", ".", ".">>

\* cmd if len(cmd) < 120 else cmd[:117] + '...'
Short(cmd) ==
  IF Len(cmd) < CmdWidth THEN cmd ELSE SubSeq(cmd, 1, CmdKeep) \o Ellipsis

\* '*' if score > 0 else ' '
Mark(score) == IF score > 0 THEN "*" ELSE " "

\* the lines watch_java prints in one cycle after clearing the screen
Screen(rs, secs) ==
  <<[kind |-> "time"]>>
  \o (IF rs = << >> THEN <<[kind |-> "none"]>>
      ELSE <<[kind |-> "header"]>>
           \o [k \in 1..Len(rs) |->
                 [kind |-> "row", mark |-> Mark(rs[k].score), pid |-> rs[k].pid,
                  mb |-> rs[k].mb, short |-> Short(rs[k].cmd)]])
  \o <<[kind |-> "footer", interval |-> secs]>>

(***************************************************************************)
(* Inputs.                                                                 *)
(***************************************************************************)
\* most java processes alive at once
MaxPids == 2

MyForgeServer == <<"M","y","F","o","r","g","e","S","e","r","v","e","r">>

JavaJar == <<"j","a","v","a"," ","-","j","a","r"," ","a","p","p">>

Digits == <<"0","1","2","3","4","5","6","7","8","9">>

\* a command line of n characters
LongCmd(n) == [i \in 1..n |-> Digits[(i % 10) + 1]]

\* java processes: two whose RSS differs by less than 0.1 MB, two with the
\* same RSS and different command lines, one larger
Profiles ==
  {[rss |-> 1030, cmd |-> MyForgeServer],
   [rss |-> 1040, cmd |-> MyForgeServer],
   [rss |-> 1040, cmd |-> JavaJar],
   [rss |-> 2048, cmd |-> JavaJar]}

LongProfiles ==
  [rss : {2048},
   cmd : {LongCmd(n) : n \in {CmdKeep, CmdWidth - 1, CmdWidth, CmdWidth + 1, 200}}]

ProcTables == UNION {[1..n -> Profiles] : n \in 0..MaxPids}

LongTables == [1..1 -> LongProfiles]

NoArg == [none |-> TRUE, parts |-> << >>]

\* --filter values: absent, "forge", "minecraft" and "FORGE, server"
FilterArgs ==
  {NoArg,
   [none |-> FALSE, parts |-> << <<"f","o","r","g","e">> >>],
   [none |-> FALSE, parts |-> << <<"m","i","n","e","c","r","a","f","t">> >>],
   [none |-> FALSE, parts |-> << <<"F","O","R","G","E">>,
                                 <<" ","s","e","r","v","e","r">> >>]}

\* --filter values without a keyword: absent, "" and ","
EmptyFilterArgs ==
  {NoArg,
   [none |-> FALSE, parts |-> << << >> >>],
   [none |-> FALSE, parts |-> << << >>, << >> >>]}

\* --interval values (seconds); argparse's type=float takes any of them
Intervals == {-1, 0, 2}

Unreadable == [readable |-> FALSE, fields |-> << >>]

Meminfo(fields) == [readable |-> TRUE, fields |-> fields]

MainMemReadings ==
  {Unreadable,
   Meminfo([key \in {"MemTotal", "MemAvailable"} |->
              IF key = "MemTotal" THEN 1000 ELSE 200]),
   Meminfo([key \in {"MemTotal", "MemAvailable"} |->
              IF key = "MemTotal" THEN 1000 ELSE 201]),
   Meminfo([key \in {"MemTotal", "MemFree", "Cached"} |->
              IF key = "MemTotal" THEN 1000 ELSE 50])}

MainDiskReadings ==
  {[ok |-> FALSE, total |-> 0, used |-> 0],
   [ok |-> TRUE, total |-> 1000, used |-> 900],
   [ok |-> TRUE, total |-> 1000, used |-> 899]}

NoMeminfo == Unreadable

NoDisk == [ok |-> FALSE, total |-> 0, used |-> 0]

(***************************************************************************)
(* log()                                                                   *)
(***************************************************************************)
\* what a call of log() can meet: success, open(LOG_PATH, 'a') or f.write
\* raising, print raising
LogOutcomes == {"ok", "open_fails", "print_fails"}

\* log(msg), then continue at next: the line is appended to the log file
\* and printed; nothing in log() catches an exception of either
Log(msg, outcome, next) ==
  /\ logfile' = IF outcome = "open_fails" THEN logfile ELSE Append(logfile, msg)
  /\ stdout' = IF outcome = "ok" THEN Append(stdout, msg) ELSE stdout
  /\ exc' = IF outcome = "ok" THEN exc ELSE "OSError"
  /\ pc' = IF outcome = "ok" THEN next ELSE "crashed"

\* one iteration of "for pid in pids": both reads of the pid, whose process
\* may exit before the first read, between the two, or not at all
ExitPoints == {"before", "between", "none"}

\* the pids of the processes that have exited
Gone == {e[1] : e \in exited}

Inspect(pid, when) ==
  LET gone1 == IF when = "before" THEN Gone \cup {pid} ELSE Gone
      gone2 == IF when = "none" THEN Gone ELSE Gone \cup {pid}
      rss   == get_rss_kb(procTable, gone1, pid)
  IN  [pid |-> pid, rss_kb |-> rss, mb |-> RoundMB(rss),
       cmd |-> get_cmdline(procTable, gone2, pid)]

(***************************************************************************)
(* main(): the snapshot run.                                               *)
(***************************************************************************)
MainReadMetrics ==
  /\ pc = "main"
  /\ mem' = get_mem_percent(procMeminfo)
  /\ disk' = get_disk_percent(diskUsage)
  /\ pc' = "log_summary"
  /\ UNCHANGED <<exc, procMeminfo, diskUsage, procTable, exited, pids, rows, logged,
                 logfile, stdout, interval, argsFilter, filter_keywords,
                 interrupted>>

MainLogSummary ==
  /\ pc = "log_summary"
  /\ \E outcome \in LogOutcomes :
        Log([kind |-> "summary", mem |-> mem, disk |-> disk], outcome, "alert_ram")
  /\ UNCHANGED <<procMeminfo, diskUsage, mem, disk, procTable, exited, pids,
                 rows, logged, interval, argsFilter, filter_keywords, interrupted>>

MainAlertRam ==
  /\ pc = "alert_ram"
  /\ IF Reaches(mem, TH_RAM)
     THEN \E outcome \in LogOutcomes :
             Log([kind |-> "alert_ram", value |-> mem], outcome, "alert_disk")
     ELSE pc' = "alert_disk" /\ UNCHANGED <<logfile, stdout, exc>>
  /\ UNCHANGED <<procMeminfo, diskUsage, mem, disk, procTable, exited, pids,
                 rows, logged, interval, argsFilter, filter_keywords, interrupted>>

MainAlertDisk ==
  /\ pc = "alert_disk"
  /\ IF Reaches(disk, TH_DISK)
     THEN \E outcome \in LogOutcomes :
             Log([kind |-> "alert_disk", value |-> disk], outcome, "find")
     ELSE pc' = "find" /\ UNCHANGED <<logfile, stdout, exc>>
  /\ UNCHANGED <<procMeminfo, diskUsage, mem, disk, procTable, exited, pids,
                 rows, logged, interval, argsFilter, filter_keywords, interrupted>>

MainFindPids ==
  /\ pc = "find"
  /\ \E pgrepRuns \in BOOLEAN :
        /\ pids' = find_java_pids(procTable, Gone, pgrepRuns)
        /\ pc' = IF pids' = << >> THEN "log_none" ELSE "inspect"
  /\ rows' = << >>
  /\ UNCHANGED <<exc, procMeminfo, diskUsage, mem, disk, procTable, exited, logged,
                 logfile, stdout, interval, argsFilter, filter_keywords,
                 interrupted>>

MainLogNone ==
  /\ pc = "log_none"
  /\ \E outcome \in LogOutcomes : Log([kind |-> "none"], outcome, "end")
  /\ UNCHANGED <<procMeminfo, diskUsage, mem, disk, procTable, exited, pids,
                 rows, logged, interval, argsFilter, filter_keywords, interrupted>>

MainInspect ==
  /\ pc = "inspect"
  /\ \E when \in ExitPoints :
        LET pid == pids[Len(rows) + 1]
        IN  /\ rows' = Append(rows, Inspect(pid, when))
            /\ exited' = IF when = "none" THEN exited
                          ELSE exited \cup {<<pid, when>>}
  /\ pc' = IF Len(rows') = Len(pids) THEN "sort" ELSE "inspect"
  /\ UNCHANGED <<exc, procMeminfo, diskUsage, mem, disk, procTable, pids, logged,
                 logfile, stdout, interval, argsFilter, filter_keywords,
                 interrupted>>

MainSort ==
  /\ pc = "sort"
  /\ rows' = SortDesc(rows, [i \in 1..Len(rows) |-> MainKey(rows[i])])
  /\ pc' = "log_header"
  /\ UNCHANGED <<exc, procMeminfo, diskUsage, mem, disk, procTable, exited,
                 pids, logged, logfile, stdout, interval, argsFilter,
                 filter_keywords, interrupted>>

MainLogHeader ==
  /\ pc = "log_header"
  /\ \E outcome \in LogOutcomes : Log([kind |-> "header"], outcome, "log_rows")
  /\ logged' = 0
  /\ UNCHANGED <<procMeminfo, diskUsage, mem, disk, procTable, exited, pids,
                 rows, interval, argsFilter, filter_keywords, interrupted>>

MainLogRow ==
  /\ pc = "log_rows"
  /\ \E outcome \in LogOutcomes :
        Log([kind |-> "proc", pid |-> rows[logged + 1].pid, mb |-> rows[logged + 1].mb,
             cmd |-> rows[logged + 1].cmd],
            outcome, IF logged + 1 = Len(rows) THEN "end" ELSE "log_rows")
  /\ logged' = logged + 1
  /\ UNCHANGED <<procMeminfo, diskUsage, mem, disk, procTable, exited, pids,
                 rows, interval, argsFilter, filter_keywords, interrupted>>

InitMain ==
  /\ pc = "main"
  /\ exc = "none"
  /\ procMeminfo \in MainMemReadings
  /\ diskUsage \in MainDiskReadings
  /\ mem = 0
  /\ disk = 0
  /\ procTable \in ProcTables
  /\ exited = {}
  /\ pids = << >>
  /\ rows = << >>
  /\ logged = 0
  /\ logfile = << >>
  /\ stdout = << >>
  /\ interval = 2
  /\ argsFilter = NoArg
  /\ filter_keywords = [none |-> TRUE, list |-> << >>]
  /\ interrupted = FALSE

NextMain ==
  \/ MainReadMetrics
  \/ MainLogSummary
  \/ MainAlertRam
  \/ MainAlertDisk
  \/ MainFindPids
  \/ MainLogNone
  \/ MainInspect
  \/ MainSort
  \/ MainLogHeader
  \/ MainLogRow

SpecMain == InitMain /\ [][NextMain]_vars

(***************************************************************************)
(* __main__ with --watch, and watch_java(): the live view.                 *)
(***************************************************************************)
\* kws of __main__: None unless args.filter is a non-empty string, else its
\* comma-separated parts, stripped, the empty ones dropped
ParseFilter(arg) ==
  IF arg.none \/ arg.parts = << << >> >>
  THEN [none |-> TRUE, list |-> << >>]
  ELSE [none |-> FALSE,
        list |-> SelectSeq([i \in 1..Len(arg.parts) |-> Strip(arg.parts[i])],
                           LAMBDA x : x # << >>)]

\* "if filter_keywords is None: filter_keywords = [...]"
ActiveKeywords(kws) == IF kws.none THEN DefaultKeywords ELSE kws.list

ParseArgs ==
  /\ pc = "cli"
  /\ filter_keywords' = ParseFilter(argsFilter)
  /\ pc' = "watch_java"
  /\ UNCHANGED <<exc, procMeminfo, diskUsage, mem, disk, procTable, exited,
                 pids, rows, logged, logfile, stdout, interval, argsFilter,
                 interrupted>>

WatchEntry ==
  /\ pc = "watch_java"
  /\ filter_keywords' = [none |-> FALSE, list |-> ActiveKeywords(filter_keywords)]
  /\ pc' = "w_find"
  /\ UNCHANGED <<exc, procMeminfo, diskUsage, mem, disk, procTable, exited,
                 pids, rows, logged, logfile, stdout, interval, argsFilter,
                 interrupted>>

WatchFindPids ==
  /\ pc = "w_find"
  /\ \E pgrepRuns \in BOOLEAN :
        /\ pids' = find_java_pids(procTable, Gone, pgrepRuns)
        /\ pc' = IF pids' = << >> THEN "w_sort" ELSE "w_inspect"
  /\ rows' = << >>
  /\ UNCHANGED <<exc, procMeminfo, diskUsage, mem, disk, procTable, exited,
                 logged, logfile, stdout, interval, argsFilter,
                 filter_keywords, interrupted>>

WatchInspect ==
  /\ pc = "w_inspect"
  /\ \E when \in ExitPoints :
        LET pid == pids[Len(rows) + 1]
            r   == Inspect(pid, when)
        IN  /\ rows' = Append(rows, [score |-> Score(r.cmd, filter_keywords.list),
                                     pid |-> r.pid, rss_kb |-> r.rss_kb,
                                     mb |-> r.mb, cmd |-> r.cmd])
            /\ exited' = IF when = "none" THEN exited
                          ELSE exited \cup {<<pid, when>>}
  /\ pc' = IF Len(rows') = Len(pids) THEN "w_sort" ELSE "w_inspect"
  /\ UNCHANGED <<exc, procMeminfo, diskUsage, mem, disk, procTable, pids,
                 logged, logfile, stdout, interval, argsFilter,
                 filter_keywords, interrupted>>

WatchSort ==
  /\ pc = "w_sort"
  /\ rows' = SortDesc(rows, [i \in 1..Len(rows) |-> WatchKey(rows[i])])
  /\ pc' = "w_render"
  /\ UNCHANGED <<exc, procMeminfo, diskUsage, mem, disk, procTable, exited,
                 pids, logged, logfile, stdout, interval, argsFilter,
                 filter_keywords, interrupted>>

WatchRender ==
  /\ pc = "w_render"
  /\ stdout' = Screen(rows, interval)
  /\ pc' = "w_sleep"
  /\ UNCHANGED <<exc, procMeminfo, diskUsage, mem, disk, procTable, exited,
                 pids, rows, logged, logfile, interval, argsFilter,
                 filter_keywords, interrupted>>

\* time.sleep(secs) raises ValueError for a negative length
SleepRaises(secs) == secs < 0

WatchSleep ==
  /\ pc = "w_sleep"
  /\ IF SleepRaises(interval)
     THEN pc' = "crashed" /\ exc' = "ValueError" /\ pids' = << >> /\ rows' = << >>
     ELSE pc' = "w_find" /\ UNCHANGED <<exc, pids, rows>>
  /\ UNCHANGED <<procMeminfo, diskUsage, mem, disk, procTable, exited,
                 logged, logfile, stdout, interval, argsFilter,
                 filter_keywords, interrupted>>

\* the positions inside "try: while True:"
LoopPcs == {"w_find", "w_inspect", "w_sort", "w_render", "w_sleep"}

\* Ctrl+C: KeyboardInterrupt is raised wherever the loop stands; no
\* "except Exception" of the functions called catches it, the handler of
\* watch_java does and prints '\nSaliendo del modo watch...'; the function
\* returns and its locals are gone
Interrupt ==
  /\ pc \in LoopPcs
  /\ interrupted' = TRUE
  /\ stdout' = Append(stdout, [kind |-> "farewell"])
  /\ pc' = "returned"
  /\ pids' = << >>
  /\ rows' = << >>
  /\ UNCHANGED <<exc, procMeminfo, diskUsage, mem, disk, procTable, exited,
                 logged, logfile, interval, argsFilter, filter_keywords>>

InitWatch ==
  /\ pc = "cli"
  /\ exc = "none"
  /\ procMeminfo = NoMeminfo
  /\ diskUsage = NoDisk
  /\ mem = 0
  /\ disk = 0
  /\ \/ /\ procTable \in ProcTables
        /\ argsFilter \in FilterArgs
        /\ interval = 2
     \/ /\ procTable \in LongTables
        /\ argsFilter \in EmptyFilterArgs
        /\ interval \in Intervals
  /\ exited = {}
  /\ pids = << >>
  /\ rows = << >>
  /\ logged = 0
  /\ logfile = << >>
  /\ stdout = << >>
  /\ filter_keywords = [none |-> TRUE, list |-> << >>]
  /\ interrupted = FALSE

NextWatch ==
  \/ ParseArgs
  \/ WatchEntry
  \/ WatchFindPids
  \/ WatchInspect
  \/ WatchSort
  \/ WatchRender
  \/ WatchSleep
  \/ Interrupt

SpecWatch == InitWatch /\ [][NextWatch]_vars

(***************************************************************************)
(* Both modes of the program.                                              *)
(***************************************************************************)
InitBoth == InitMain \/ InitWatch

NextBoth == NextMain \/ NextWatch

SpecBoth == InitBoth /\ [][NextBoth]_vars

(***************************************************************************)
(* The metric functions on their own, over every small reading.            *)
(***************************************************************************)
\* largest MemTotal / disk total of a reading
MaxTotal == 16

\* largest MemFree, Buffers, Cached of a reading
MaxPart == 3

\* a dict with no entry for key, or one of the values
OptField(key, values) == {<< >>} \cup {key :> v : v \in values}

MemReadings ==
  {Unreadable} \cup
  {Meminfo(t @@ a @@ p) :
     t \in OptField("MemTotal", 0..MaxTotal),
     a \in OptField("MemAvailable", 0..(MaxTotal + 1)),
     p \in {<< >>, ("MemFree" :> 1) @@ ("Buffers" :> 1) @@ ("Cached" :> 1)}}
  \cup
  {Meminfo(t @@ f @@ b @@ c) :
     t \in OptField("MemTotal", 0..MaxTotal),
     f \in OptField("MemFree", 0..MaxPart),
     b \in OptField("Buffers", 0..MaxPart),
     c \in OptField("Cached", 0..MaxPart)}

DiskReadings ==
  {NoDisk} \cup
  {[ok |-> TRUE, total |-> t, used |-> u] : t \in 0..MaxTotal, u \in 0..MaxTotal}

CallGetMemPercent ==
  /\ pc = "idle"
  /\ \E reading \in MemReadings :
        /\ procMeminfo' = reading
        /\ mem' = get_mem_percent(reading)
  /\ pc' = "get_mem_percent"
  /\ UNCHANGED <<exc, diskUsage, disk, procTable, exited, pids, rows, logged,
                 logfile, stdout, interval, argsFilter, filter_keywords,
                 interrupted>>

CallGetDiskPercent ==
  /\ pc = "idle"
  /\ \E usage \in DiskReadings :
        /\ usage.used <= usage.total
        /\ diskUsage' = usage
        /\ disk' = get_disk_percent(usage)
  /\ pc' = "get_disk_percent"
  /\ UNCHANGED <<exc, procMeminfo, mem, procTable, exited, pids, rows, logged,
                 logfile, stdout, interval, argsFilter, filter_keywords,
                 interrupted>>

InitMetrics ==
  /\ pc = "idle"
  /\ exc = "none"
  /\ procMeminfo = NoMeminfo
  /\ diskUsage = NoDisk
  /\ mem = 0
  /\ disk = 0
  /\ procTable = << >>
  /\ exited = {}
  /\ pids = << >>
  /\ rows = << >>
  /\ logged = 0
  /\ logfile = << >>
  /\ stdout = << >>
  /\ interval = 2
  /\ argsFilter = NoArg
  /\ filter_keywords = [none |-> TRUE, list |-> << >>]
  /\ interrupted = FALSE

NextMetrics == CallGetMemPercent \/ CallGetDiskPercent

SpecMetrics == InitMetrics /\ [][NextMetrics]_vars

(***************************************************************************)
(* Properties.                                                             *)
(***************************************************************************)
Range(seq) == {seq[i] : i \in 1..Len(seq)}

PosIn(seq, x) == CHOOSE i \in 1..Len(seq) : seq[i] = x

\* r tenths is a tenth nearest to the exact 1000 * num / den
NearestTenth(r, num, den) == 2 * Abs(1000 * num - r * den) <= den

\* mb tenths is a tenth nearest to the exact 10 * kb / 1024
NearestTenthMB(mb, kb) == 2 * Abs(10 * kb - mb * 1024) <= 1024

\* 1000 * num / den lies exactly halfway between two tenths
Halfway(num, den) ==
  /\ (2000 * Abs(num)) % den = 0
  /\ ((2000 * Abs(num)) \div den) % 2 = 1

\* num / den is a multiple of 1/16, so the quotient and its hundredfold are
\* exact in binary
ExactInBinary(num, den) == (16 * Abs(num)) % den = 0

LinesOf(kind) == {i \in 1..Len(logfile) : logfile[i].kind = kind}

ProcLines == SelectSeq(logfile, LAMBDA l : l.kind = "proc")

RowLines == SelectSeq(stdout, LAMBDA l : l.kind = "row")

MemTotalOf(f) == IF "MemTotal" \in DOMAIN f THEN f["MemTotal"] ELSE 0

PartOf(f, key) == IF key \in DOMAIN f THEN f[key] ELSE 0

AvailableOf(f) ==
  IF "MemAvailable" \in DOMAIN f THEN f["MemAvailable"]
  ELSE PartOf(f, "MemFree") + PartOf(f, "Buffers") + PartOf(f, "Cached")

\* C1: a snapshot run never lets an exception escape, whatever fails in a
\* collaborator, the append to the log file included.  (Stated as the
\* claim has it; log() catches nothing, so a failing open or write of
\* monitor.log escapes main.)
C1_NoExceptionEscapes == exc = "none" /\ pc # "crashed"

\* C2: the live loop ends only by an interrupt, for every interval the CLI
\* accepts, and then with the farewell message and no uncaught exception.
\* (Stated as the claim has it; time.sleep raises ValueError for a negative
\* interval.)
C2_OnlyInterruptEnds ==
  /\ exc = "none"
  /\ pc \in {"returned", "crashed"} =>
       /\ pc = "returned"
       /\ interrupted
       /\ stdout # << >>
       /\ stdout[Len(stdout)].kind = "farewell"

\* C3: in both modes every discovered pid has exactly one row and one output
\* line in the cycle; a process gone before its reads has residentKB 0 and
\* an empty command line, one gone between the reads keeps its RSS and has
\* an empty command line, and the rows of the other pids are those of the
\* process table.
C3_OneRowPerPid ==
  /\ pc \in {"sort", "log_header", "log_rows", "end", "w_sort", "w_render", "w_sleep"} =>
       /\ Len(rows) = Len(pids)
       /\ \A p \in Range(pids) : Cardinality({i \in 1..Len(rows) : rows[i].pid = p}) = 1
       /\ \A i \in 1..Len(rows) :
            LET r == rows[i]
                t == procTable[r.pid]
            IN  /\ <<r.pid, "before">> \in exited =>
                     r.rss_kb = 0 /\ r.mb = 0 /\ r.cmd = << >>
                /\ <<r.pid, "between">> \in exited =>
                     r.rss_kb = t.rss /\ r.cmd = << >>
                /\ r.pid \notin Gone => r.rss_kb = t.rss /\ r.cmd = t.cmd
  /\ pc = "w_sleep" =>
       /\ Len(RowLines) = Len(pids)
       /\ \A i \in 1..Len(rows) :
            RowLines[i].pid = rows[i].pid /\ RowLines[i].mb = rows[i].mb
  /\ pc = "end" /\ pids # << >> =>
       /\ Len(ProcLines) = Len(pids)
       /\ \A i \in 1..Len(rows) :
            /\ ProcLines[i].pid = rows[i].pid
            /\ ProcLines[i].mb = rows[i].mb
            /\ ProcLines[i].cmd = rows[i].cmd

C3_Witness ==
  /\ pc = "w_sleep"
  /\ Len(RowLines) = 2
  /\ \E i, j \in 1..Len(rows) :
        /\ <<rows[i].pid, "before">> \in exited
        /\ rows[i].rss_kb = 0
        /\ rows[i].cmd = << >>
        /\ rows[j].pid \notin Gone
        /\ rows[j].cmd = procTable[rows[j].pid].cmd

C5_Alerts ==
  /\ LinesOf("alert_ram") # {} => mem >= 800
  /\ LinesOf("alert_disk") # {} => disk >= 900
  /\ (pc \in {"alert_disk", "find", "log_none", "inspect", "sort", "log_header",
              "log_rows", "end"} /\ mem >= 800) => Cardinality(LinesOf("alert_ram")) = 1
  /\ (pc \in {"find", "log_none", "inspect", "sort", "log_header", "log_rows",
              "end"} /\ disk >= 900) => Cardinality(LinesOf("alert_disk")) = 1
  /\ (pc \notin {"main", "crashed"}
      /\ procMeminfo.readable
      /\ MemTotalOf(procMeminfo.fields) = 1000
      /\ AvailableOf(procMeminfo.fields) = 200) => mem = 800
  /\ \A i \in LinesOf("alert_ram") \cup LinesOf("alert_disk") :
        /\ \E j \in LinesOf("summary") : j < i
        /\ \A j \in LinesOf("none") \cup LinesOf("header") \cup LinesOf("proc") : i < j

C5_Witness ==
  /\ pc = "end"
  /\ mem = 800
  /\ disk = 900
  /\ LinesOf("alert_ram") # {}
  /\ LinesOf("alert_disk") # {}
  /\ LinesOf("proc") # {}

\* C6: the live ranking is a stable sort by (score descending, residentMB
\* descending), residentMB being residentKB/1024 rounded to one decimal:
\* of any two rows the earlier has the larger key, or the keys are equal
\* and it was discovered first; the screen lists the rows in that order.
C6_StableRank ==
  /\ pc \in {"w_render", "w_sleep"} =>
       /\ Len(rows) = Len(pids)
       /\ \A i \in 1..Len(rows) : NearestTenthMB(rows[i].mb, rows[i].rss_kb)
       /\ \A i, j \in 1..Len(rows) :
            i < j =>
              \/ rows[i].score > rows[j].score
              \/ rows[i].score = rows[j].score /\ rows[i].mb > rows[j].mb
              \/ /\ rows[i].score = rows[j].score
                 /\ rows[i].mb = rows[j].mb
                 /\ PosIn(pids, rows[i].pid) < PosIn(pids, rows[j].pid)
  /\ pc = "w_sleep" =>
       [i \in 1..Len(RowLines) |-> RowLines[i].pid] = [i \in 1..Len(rows) |-> rows[i].pid]

C6_Witness ==
  /\ pc = "w_sleep"
  /\ Len(RowLines) = 2
  /\ rows[1].score = rows[2].score
  /\ rows[1].mb = rows[2].mb
  /\ rows[1].rss_kb < rows[2].rss_kb
  /\ RowLines[1].pid = pids[1]

\* C7: a live row shows the command line unchanged when it has at most 120
\* characters, and its first 117 characters followed by "..." when it is
\* longer; the text shown never exceeds 120 characters.  (Stated as the
\* claim has it; the code tests len(cmd) < 120.)
C7_ShownUnchanged ==
  pc = "w_sleep" =>
    \A i \in 1..Len(rows) :
       LET cmd   == rows[i].cmd
           shown == RowLines[i].short
       IN  /\ Len(shown) <= CmdWidth
           /\ Len(cmd) <= CmdWidth => shown = cmd
           /\ Len(cmd) > CmdWidth =>
                shown = SubSeq(cmd, 1, CmdKeep) \o Ellipsis /\ Len(shown) = CmdWidth

\* C8 (amended): a snapshot run that discovers pids logs one process line
\* per pid, in descending order of the resident memory in MB rounded to one
\* decimal (the value the line shows), lines with equal rounded MB in
\* discovery order, no keyword score involved; a run that discovers none
\* logs the single line "No se han encontrado procesos java activos." and
\* no process line.
C8_SnapshotLines ==
  pc = "end" =>
    IF pids = << >>
    THEN /\ ProcLines = << >>
         /\ LinesOf("header") = {}
         /\ Cardinality(LinesOf("none")) = 1
    ELSE /\ LinesOf("none") = {}
         /\ Len(ProcLines) = Len(pids)
         /\ {ProcLines[i].pid : i \in 1..Len(ProcLines)} = Range(pids)
         /\ \A i \in 1..Len(ProcLines) :
              NearestTenthMB(ProcLines[i].mb, rows[i].rss_kb)
         /\ \A i, j \in 1..Len(ProcLines) :
              i < j =>
                \/ ProcLines[i].mb > ProcLines[j].mb
                \/ /\ ProcLines[i].mb = ProcLines[j].mb
                   /\ PosIn(pids, ProcLines[i].pid) < PosIn(pids, ProcLines[j].pid)

\* C8 as stated: the process lines are in descending order of the RSS read
\* for their process.
C8_Original ==
  pc = "end" =>
    /\ Len(ProcLines) = Len(pids)
    /\ \A i, j \in 1..Len(ProcLines) :
         i < j => rows[i].rss_kb >= rows[j].rss_kb

C8_Witness ==
  /\ pc = "end"
  /\ Len(ProcLines) = 2
  /\ ProcLines[1].pid = pids[2]
  /\ ProcLines[1].mb > ProcLines[2].mb

\* C9 (amended): every percentage returned by get_mem_percent and
\* get_disk_percent is the ratio rounded to a nearest tenth, and a ratio that
\* is exactly halfway between two tenths and exact in binary (a multiple of
\* 1/16, such as 1/16 = 6.25 %) is returned as the tenth with the even last
\* digit (6.2, as 18.75 gives 18.8): round-half-to-even, not half away from
\* zero.
C9_RoundHalfEven ==
  /\ (pc = "get_mem_percent" /\ procMeminfo.readable
      /\ MemTotalOf(procMeminfo.fields) > 0) =>
       LET total == MemTotalOf(procMeminfo.fields)
           used  == total - AvailableOf(procMeminfo.fields)
       IN  /\ NearestTenth(mem, used, total)
           /\ (Halfway(used, total) /\ ExactInBinary(used, total)) => mem % 2 = 0
  /\ (pc = "get_disk_percent" /\ diskUsage.ok /\ diskUsage.total > 0) =>
       /\ NearestTenth(disk, diskUsage.used, diskUsage.total)
       /\ (Halfway(diskUsage.used, diskUsage.total)
           /\ ExactInBinary(diskUsage.used, diskUsage.total)) => disk % 2 = 0

\* C9 as stated: a ratio exactly halfway between two tenths is returned as
\* the tenth of larger magnitude.
C9_Original ==
  /\ (pc = "get_mem_percent" /\ procMeminfo.readable
      /\ MemTotalOf(procMeminfo.fields) > 0) =>
       LET total == MemTotalOf(procMeminfo.fields)
           used  == total - AvailableOf(procMeminfo.fields)
       IN  Halfway(used, total) => Abs(mem) * total > 1000 * Abs(used)
  /\ (pc = "get_disk_percent" /\ diskUsage.ok /\ diskUsage.total > 0) =>
       (Halfway(diskUsage.used, diskUsage.total) =>
          disk * diskUsage.total > 1000 * diskUsage.used)

C9_Witness ==
  /\ pc = "get_disk_percent"
  /\ diskUsage.ok
  /\ diskUsage.total > 0
  /\ Halfway(diskUsage.used, diskUsage.total)
  /\ disk * diskUsage.total < 1000 * diskUsage.used
  /\ disk % 2 = 0

\* two characters equal up to case
SameLetter(a, b) ==
  a = b \/ \E i \in 1..Len(UpperCase) : {a, b} = {UpperCase[i], LowerCase[i]}

\* kw occurs in cmd as a substring, case ignored
Occurs(kw, cmd) ==
  \E off \in 0..(Len(cmd) - Len(kw)) :
     \A j \in 1..Len(kw) : SameLetter(kw[j], cmd[off + j])

\* the --filter parts that hold a keyword
NonBlank(parts) == {i \in 1..Len(parts) : \E j \in 1..Len(parts[i]) : parts[i][j] # " "}

\* C10: the score of a row is the number of keywords of the active list
\* that occur in its command line, case ignored; the active list is the
\* default six when no keyword list is supplied (no --filter, or an empty
\* one) and otherwise exactly the supplied keywords; "MyForgeServer" scores
\* 1 against [forge] and 0 against [minecraft]; the marker of a row is
\* non-space exactly when its score is > 0.
C10_Score ==
  /\ pc \in LoopPcs \cup {"returned", "crashed"} =>
       /\ ~filter_keywords.none
       /\ (argsFilter.none \/ argsFilter.parts = << << >> >>) =>
            filter_keywords.list = DefaultKeywords
       /\ (~argsFilter.none /\ argsFilter.parts # << << >> >>) =>
            /\ Len(filter_keywords.list) = Cardinality(NonBlank(argsFilter.parts))
            /\ Range(filter_keywords.list) =
                 {Strip(argsFilter.parts[i]) : i \in NonBlank(argsFilter.parts)}
       /\ \A i \in 1..Len(rows) :
            /\ rows[i].score =
                 Cardinality({n \in 1..Len(filter_keywords.list) :
                                Occurs(filter_keywords.list[n], rows[i].cmd)})
            /\ (rows[i].cmd = MyForgeServer
                /\ filter_keywords.list = << <<"f","o","r","g","e">> >>) =>
                 rows[i].score = 1
            /\ (rows[i].cmd = MyForgeServer
                /\ filter_keywords.list = << <<"m","i","n","e","c","r","a","f","t">> >>) =>
                 rows[i].score = 0
  /\ pc = "w_sleep" =>
       \A i \in 1..Len(rows) : (RowLines[i].mark # " ") <=> (rows[i].score > 0)

C10_Witness ==
  /\ pc = "w_sleep"
  /\ filter_keywords.list = << <<"F","O","R","G","E">>, <<"s","e","r","v","e","r">> >>
  /\ \E i, j \in 1..Len(rows) :
        /\ rows[i].cmd = MyForgeServer
        /\ rows[i].score = 2
        /\ RowLines[i].mark = "*"
        /\ rows[j].cmd = JavaJar
        /\ rows[j].score = 0
        /\ RowLines[j].mark = " "

====
